---- MODULE Spec2Model ----
(***************************************************************************)
(* A model of t2py: the Dataset and WellLogFile well-log stores             *)
(* (dataset.py, well_logs.py) and the Texture2Par control-file writer       *)
(* (texture2par.py, pilot_points.py).                                       *)
(*                                                                          *)
(* A pandas DataFrame is a sequence of rows; a row is a record whose        *)
(* DOMAIN is the frame's set of column labels.  A missing value (NaN) is    *)
(* the number NaN below; arithmetic and max treat it as pandas does.        *)
(***************************************************************************)
EXTENDS Integers, Sequences, FiniteSets, TLC

\* ------------------------------------------------------------------ bounds
MaxRows == 3
MaxDepth == 3
MaxCalls == 2

\* ----------------------------------------------------------------- helpers
\* numpy.nan: the missing-value marker (no depth, ID or class value is negative)
NaN == -1
\* Python's None, for an optional column name
None == "None"

Range(s) == {s[i] : i \in 1..Len(s)}

\* a + b on values that may be NaN (NaN is absorbing)
AddNaN(a, b) == IF a = NaN \/ b = NaN THEN NaN ELSE a + b

\* Series.max(): the greatest value that is not NaN; NaN for an empty or all-NaN series
SeriesMax(s) ==
    LET vals == {s[i] : i \in 1..Len(s)} \ {NaN}
    IN IF vals = {} THEN NaN ELSE CHOOSE m \in vals : \A v \in vals : v <= m

\* r with column c set to v (the column is created when absent)
SetCol(r, c, v) == (c :> v) @@ r

\* the column c of a frame, as a sequence
Col(rows, c) == [i \in 1..Len(rows) |-> rows[i][c]]

\* =================================================================== Dataset
VARIABLES
    has_var,        \* Dataset.has_var
    nlay,           \* Dataset.nlay
    df,             \* Dataset.df: the store's table
    max_id,         \* Dataset.max_id
    ncalls,         \* number of add_wells_by_df calls made so far
    res,            \* how the last call ended: "none", "ok", "ValueError", "KeyError"
    arg,            \* the arguments of the last call (its frame's columns included)
    batch,          \* the rows of the frame passed to the last call
    wdf,            \* add_wells_by_df's local df when it builds pdf
    new_rows_list,  \* add_wells_by_df's local new_rows_list
    pdf,            \* add_wells_by_df's local pdf: the rows it appends
    oldmax          \* add_wells_by_df's local oldmax

dsVars == <<has_var, nlay, df, max_id, ncalls, res, arg, batch, wdf, new_rows_list, pdf, oldmax>>

\* the classes the Dataset is constructed with
Classes == <<"sand">>

\* f"var_{c}"
VarName(c) == IF c = "sand" THEN "var_sand" ELSE "var_zz"

\* f"hsu_{i}"
HsuName(i) == IF i = 1 THEN "hsu_1" ELSE "hsu_2"

\* Dataset.hsu_columns
HsuColumns(nl) == [i \in 1..nl |-> HsuName(i)]

\* Dataset.columns, as __init__ builds the list
Columns(hv, nl) ==
    <<"Location", "ID", "n", "X", "Y", "Zland", "Depth">>
    \o Classes
    \o (IF hv THEN [i \in 1..Len(Classes) |-> VarName(Classes[i])] ELSE <<>>)
    \o HsuColumns(nl)

\* the columns add_wells_by_df requires of its frame, under their default names
RequiredCols == {"Location", "X", "Y", "Zland", "Depth"}

\* a {class: column} argument that was not passed (None)
NoDict == [given |-> FALSE, items |-> <<>>]

\* data_class_cols when it is None: {key: key for key in self.classes}
DefaultClassCols == [i \in 1..Len(Classes) |-> [key |-> Classes[i], col |-> Classes[i]]]

\* var_class_cols when it is None: {key: f'var_{key}' for key in self.classes}
DefaultVarCols == [i \in 1..Len(Classes) |-> [key |-> Classes[i], col |-> VarName(Classes[i])]]

DataClassCols(a) == IF a.data_class_cols.given THEN a.data_class_cols.items ELSE DefaultClassCols

VarClassCols(a) == IF a.var_class_cols.given THEN a.var_class_cols.items ELSE DefaultVarCols

\* a mutant: a class name that the Dataset does not have is let through
ValidateAnyClass(cols, a, hv, nl) ==
    /\ RequiredCols \subseteq cols
    /\ \A it \in Range(DataClassCols(a)) : it.col \in cols
    /\ hv => \A it \in Range(VarClassCols(a)) : it.col \in cols
    /\ \A i \in 1..nl : HsuName(i) \in cols

\* the checks that raise ValueError, in the order the code makes them: every one holds
Validate(cols, a, hv, nl) ==
    /\ RequiredCols \subseteq cols
    /\ \A it \in Range(DataClassCols(a)) : it.key \in Range(Classes) /\ it.col \in cols
    /\ hv => \A it \in Range(VarClassCols(a)) : it.key \in Range(Classes) /\ it.col \in cols
    /\ \A i \in 1..nl : HsuName(i) \in cols

\* df[[name_col, x_col, y_col]].duplicated(): row i repeats an earlier row's tuple
Duplicated(rows, i) ==
    \E j \in 1..(i - 1) :
        <<rows[j].Location, rows[j].X, rows[j].Y>> = <<rows[i].Location, rows[i].X, rows[i].Y>>

\* (~df[[name_col, x_col, y_col]].duplicated()).cumsum()
RollingCount(rows) ==
    [i \in 1..Len(rows) |-> Cardinality({j \in 1..i : ~Duplicated(rows, j)})]

\* df['ID'] = ...
AssignID(rows) ==
    [i \in 1..Len(rows) |-> SetCol(rows[i], "ID", RollingCount(rows)[i])]

\* a mutant: the rows are left in the order they came in
NoSort(rows) == rows

\* df.sort_values(by=['ID', depth_col], ascending=[True, True]): a stable sort, so
\* the place of rows[i] is one more than the number of rows that come before it
SortByIDDepth(rows) ==
    LET Less(r, s) == r.ID < s.ID \/ (r.ID = s.ID /\ r.Depth < s.Depth)
        Before(j, i) == Less(rows[j], rows[i]) \/ (~Less(rows[i], rows[j]) /\ j < i)
        Place(i) == 1 + Cardinality({j \in 1..Len(rows) : Before(j, i)})
    IN [k \in 1..Len(rows) |-> rows[CHOOSE i \in 1..Len(rows) : Place(i) = k]]

\* the group of df.groupby('ID') with key id: the rows with that ID, in frame order
Group(rows, id) ==
    LET idx == {i \in 1..Len(rows) : rows[i].ID = id}
    IN [k \in 1..Cardinality(idx) |->
          rows[CHOOSE i \in idx : Cardinality({j \in idx : j < i}) = k - 1]]

\* df.groupby('ID').cumcount()
CumCount(rows) ==
    [i \in 1..Len(rows) |-> Cardinality({j \in 1..(i - 1) : rows[j].ID = rows[i].ID})]

\* df[n_col] = df.groupby('ID').cumcount() + 1
SetPointIndex(rows, n_col) ==
    [i \in 1..Len(rows) |-> SetCol(rows[i], n_col, CumCount(rows)[i] + 1)]

\* the orders of the rows g[i], i \in left, that ascend in depth
RECURSIVE DepthOrders(_, _)
DepthOrders(g, left) ==
    IF left = {} THEN {<<>>}
    ELSE UNION {{<<g[i]>> \o t : t \in DepthOrders(g, left \ {i})} :
                  i \in {i \in left : \A j \in left : g[i].Depth <= g[j].Depth}}

\* group.sort_values(by=depth_col): the default kind, quicksort, is not a stable
\* sort, so rows of equal depth come out in an order the numpy build decides; the
\* set of the orders it can leave the group in
SortByDepth(g) == DepthOrders(g, 1..Len(g))

\* for key, col_name in data_class_cols.items(): new_row[col_name] = np.nan
BlankClasses(r, dcc) ==
    [c \in DOMAIN r |-> IF \E it \in Range(dcc) : it.col = c THEN NaN ELSE r[c]]

\* a mutant: the synthetic row keeps the top depth of the row it is copied from
NewRowKeepsTop(cur, previous_depth, top_col, dcc) ==
    BlankClasses(SetCol(cur, "Depth", cur[top_col]), dcc)

\* the synthetic row made from row `cur` when its top lies below previous_depth
NewRow(cur, previous_depth, top_col, dcc) ==
    BlankClasses(SetCol(SetCol(cur, "Depth", cur[top_col]), top_col, previous_depth), dcc)

\* a mutant: a row is synthesized for every interval that does not start above the
\* previous bottom
GapTestGeq(current_top, previous_depth) == current_top >= previous_depth

\* if current_top > previous_depth
GapTest(current_top, previous_depth) == current_top > previous_depth

\* the inner loop over one sorted group, from row i on, with previous_depth
RECURSIVE GroupNewRows(_, _, _, _, _)
GroupNewRows(g, i, previous_depth, top_col, dcc) ==
    IF i > Len(g) THEN <<>>
    ELSE (IF GapTest(g[i][top_col], previous_depth)
          THEN <<NewRow(g[i], previous_depth, top_col, dcc)>>
          ELSE <<>>)
         \o GroupNewRows(g, i + 1, g[i].Depth, top_col, dcc)

\* the outer loop over df.groupby('ID'), from group `id` on; previous_depth starts at 0.0
\* (the set of the lists new_rows_list can end as, one for each way the groups sort)
RECURSIVE FillGaps(_, _, _, _)
FillGaps(rows, id, top_col, dcc) ==
    IF id > SeriesMax(<<0>> \o Col(rows, "ID")) THEN {<<>>}
    ELSE {GroupNewRows(g, 1, 0, top_col, dcc) \o rest :
            g \in SortByDepth(Group(rows, id)),
            rest \in FillGaps(rows, id + 1, top_col, dcc)}

\* the column that data_class_cols / var_class_cols gives for `key`
ColOf(items, key) == (CHOOSE it \in Range(items) : it.key = key).col

\* one row of pdf, built from row r of the local df
PdfRow(r, n_col, dcc, vcc, hv, nl, mx) ==
    LET keys == {it.key : it \in Range(dcc)}
        vkeys == IF hv THEN {it.key : it \in Range(vcc)} ELSE {}
        cols == {"Location", "ID", "n", "X", "Y", "Zland", "Depth"} \cup keys
                \cup {VarName(k) : k \in vkeys} \cup Range(HsuColumns(nl))
    IN [c \in cols |->
          IF c = "ID" THEN AddNaN(mx, r.ID)
          ELSE IF c = "n" THEN r[n_col]
          ELSE IF c \in keys THEN r[ColOf(dcc, c)]
          ELSE IF \E k \in vkeys : VarName(k) = c
               THEN r[ColOf(vcc, CHOOSE k \in vkeys : VarName(k) = c)]
          ELSE r[c]]

\* pd.concat([self.df, pdf], axis=0): a column a row lacks is filled with NaN
Concat(rows, more, columns) ==
    rows \o [i \in 1..Len(more) |->
                [c \in Range(columns) \cup DOMAIN more[i] |->
                    IF c \in DOMAIN more[i] THEN more[i][c] ELSE NaN]]

\* self.max_id = self.df['ID'].max()
NewMaxId(rows) == SeriesMax(Col(rows, "ID"))

\* add_wells_by_df up to the append: the ways the call can end (one, unless a group
\* has rows of equal depth) and, when it does not raise, its locals df, new_rows_list
\* and pdf.  `rows` are the frame's rows, a.cols its columns, mx the store's max_id.
Process(rows, a, hv, nl, mx) ==
    LET dcc == DataClassCols(a)
        vcc == VarClassCols(a)
        n_given == a.n_col # None
        n_col == IF n_given THEN a.n_col ELSE "n"
        fill == a.depth_top_col # None /\ a.fill_missing
        \* group.iloc[i][depth_top_col] on a frame without that column
        topErr == fill /\ a.depth_top_col \notin a.cols /\ rows # <<>>
        \* df[n_col] on a frame without that column
        nErr == n_given /\ ~fill /\ a.n_col \notin a.cols
        failed(kind) == [res |-> kind, df |-> <<>>, new_rows_list |-> <<>>, pdf |-> <<>>]
        done(df3, news) ==
            [res |-> "ok", df |-> df3, new_rows_list |-> news,
             pdf |-> [i \in 1..Len(df3) |-> PdfRow(df3[i], n_col, dcc, vcc, hv, nl, mx)]]
        \* the frame after the rows `news` are appended to df2, re-sorted and re-counted
        refilled(df2, news) ==
            {done(df3, news) : df3 \in {SetPointIndex(SortByIDDepth(df2 \o news), n_col)}}
        from(df2) ==
            IF fill
            THEN UNION {refilled(df2, news) : news \in FillGaps(df2, 1, a.depth_top_col, dcc)}
            ELSE {done(df2, <<>>)}
    IN IF ~Validate(a.cols, a, hv, nl) THEN {failed("ValueError")}
       ELSE IF topErr \/ nErr THEN {failed("KeyError")}
       ELSE UNION {UNION {from(df2) : df2 \in {IF n_given THEN df1
                                               ELSE SetPointIndex(SortByIDDepth(df1), n_col)}} :
                     df1 \in {AssignID(rows)}}

\* Dataset.add_wells_by_df(df, ...): the frame has columns a.cols and rows `rows`
add_wells_by_df(rows, a) ==
    \E out \in Process(rows, a, has_var, nlay, max_id) :
       /\ res' = out.res
       /\ arg' = a
       /\ batch' = rows
       /\ wdf' = out.df
       /\ new_rows_list' = out.new_rows_list
       /\ pdf' = out.pdf
       /\ ncalls' = ncalls + 1
       /\ IF out.res = "ok"
          THEN /\ oldmax' = max_id
               /\ df' = Concat(df, out.pdf, Columns(has_var, nlay))
               /\ max_id' = NewMaxId(df')
          ELSE UNCHANGED <<oldmax, df, max_id>>
       /\ UNCHANGED <<has_var, nlay>>

\* the state when no add_wells_by_df call has been made
NoArg == [cols |-> {}, n_col |-> None, depth_top_col |-> None, fill_missing |-> TRUE,
          data_class_cols |-> NoDict, var_class_cols |-> NoDict]

\* Dataset(classes, hsus, nlay, filename, dataframe, variance_col): `given` says that
\* a filename or a dataframe was passed, `table` is what it holds.  hsus without a
\* number of layers raises; without hsus the number of layers passed is dropped
NewDataset(hv, hsus, nl, given, table) ==
    IF hsus /\ nl = 0 THEN [res |-> "ValueError"]
    ELSE [res |-> "ok",
          has_var |-> hv,
          nlay |-> IF hsus THEN nl ELSE 0,
          df |-> IF given THEN table ELSE <<>>,
          max_id |-> IF given /\ table # <<>> THEN SeriesMax(Col(table, "ID")) ELSE 0]

\* the Dataset a run starts with: a construction that raised leaves no Dataset
DatasetInit(hv, hsus, nl, given, table) ==
    \E made \in {NewDataset(hv, hsus, nl, given, table)} :
        /\ made.res = "ok"
        /\ has_var = made.has_var
        /\ nlay = made.nlay
        /\ df = made.df
        /\ max_id = made.max_id

\* no add_wells_by_df call has been made; the first one will pass the frame `rows`
\* with the arguments a
NoCallYet(rows, a) ==
    /\ ncalls = 0
    /\ res = "none"
    /\ arg = a
    /\ batch = rows
    /\ wdf = <<>>
    /\ new_rows_list = <<>>
    /\ pdf = <<>>
    /\ oldmax = 0

\* ------------------------------------------------- inputs of the Dataset runs
\* the wells (name, x, y) the frames are drawn from
Wells == {[name |-> "A", x |-> 0, y |-> 0], [name |-> "B", x |-> 0, y |-> 0]}

\* one input row: well w, interval (top, bot), point index `point`; `pos` tags the
\* class, variance and elevation values so that copies can be told apart
InRow(w, top, bot, point, pos, cols) ==
    LET full == [Location |-> w.name, X |-> w.x, Y |-> w.y, Zland |-> 50 + pos,
                 Depth |-> bot, Top |-> top, Point |-> point,
                 sand |-> 10 + pos, var_sand |-> 20 + pos, hsu_1 |-> 1, hsu_2 |-> 2]
    IN [c \in cols |-> full[c]]

\* a table a Dataset is constructed from: two wells already stored
StoredTable(hv, nl) ==
    LET row(name, id, d) ==
            [c \in Range(Columns(hv, nl)) |->
                IF c = "Location" THEN name ELSE IF c = "ID" THEN id
                ELSE IF c = "n" THEN 1 ELSE IF c = "Depth" THEN d ELSE 0]
    IN <<row("P", 2, 1), row("Q", 1, 2)>>

\* the columns a complete frame has when no top-depth or point-index column is used
PlainCols == RequiredCols \cup {"sand", "var_sand", "hsu_1"}

\* what a call of the store runs deviates in: nothing, one column left out of the
\* frame, or an explicit data_class_cols / var_class_cols
Deviations ==
    {[drop |-> c, dcc |-> NoDict, vcc |-> NoDict] : c \in PlainCols \cup {"none"}}
    \cup {[drop |-> "none", dcc |-> [given |-> TRUE, items |-> <<[key |-> k, col |-> "sand"]>>],
           vcc |-> NoDict] : k \in {"sand", "zz"}}
    \cup {[drop |-> "none", dcc |-> NoDict,
           vcc |-> [given |-> TRUE, items |-> <<[key |-> k, col |-> "var_sand"]>>]] :
             k \in {"sand", "zz"}}

\* a call on the store: a frame of up to MaxRows rows, each a well and a bottom depth
StoreCall ==
    /\ ncalls < MaxCalls
    /\ \E dv \in Deviations, k \in 0..MaxRows :
         \E ws \in [1..k -> Wells], ds \in [1..k -> 1..1] :
            LET cols == PlainCols \ {dv.drop}
                rows == [i \in 1..k |-> InRow(ws[i], 0, ds[i], 0, i, cols)]
            IN add_wells_by_df(rows, [cols |-> cols, n_col |-> None, depth_top_col |-> None,
                                      fill_missing |-> TRUE, data_class_cols |-> dv.dcc,
                                      var_class_cols |-> dv.vcc])

\* the intervals (top, bottom) of the rows of a frame: with a top-depth column, every
\* top <= bottom up to MaxDepth; without one, the bottom alone
Intervals(withTop) ==
    IF withTop THEN {iv \in (0..MaxDepth) \X (0..MaxDepth) : iv[1] <= iv[2]}
    ELSE {<<0, b>> : b \in 0..MaxDepth}

\* the value of a caller's own point-index column (the same in every row)
Points(withPoint) == IF withPoint THEN {2} ELSE {0}

\* the frames and arguments of the gap-filling runs: every combination of n_col,
\* depth_top_col and fill_missing; the frame holds the named columns, or lacks one
GapInputs(rows, a) ==
    \E n_col \in {None, "Point"}, top_col \in {None, "Top"}, fill \in BOOLEAN,
       haveTop \in BOOLEAN, havePoint \in BOOLEAN, k \in 0..MaxRows :
        /\ haveTop => top_col # None
        /\ havePoint => n_col # None
        /\ \E ws \in [1..k -> Wells], iv \in [1..k -> Intervals(haveTop)],
              ps \in [1..k -> Points(havePoint)] :
             LET cols == PlainCols \cup (IF haveTop THEN {"Top"} ELSE {})
                                   \cup (IF havePoint THEN {"Point"} ELSE {})
             IN /\ rows = [i \in 1..k |-> InRow(ws[i], iv[i][1], iv[i][2], ps[i], i, cols)]
                /\ a = [cols |-> cols, n_col |-> n_col, depth_top_col |-> top_col,
                        fill_missing |-> fill, data_class_cols |-> NoDict,
                        var_class_cols |-> NoDict]

\* the call on the frame and arguments the run was started with
GapCall ==
    /\ ncalls = 0
    /\ add_wells_by_df(batch, arg)

\* the frame a gap-filling call ended with (its rows with their top and bottom depths,
\* the synthetic rows among them) is passed to add_wells_by_df again, same arguments
GapAgain ==
    /\ ncalls = 1
    /\ res = "ok"
    /\ arg.depth_top_col # None /\ arg.fill_missing
    /\ add_wells_by_df(wdf, [arg EXCEPT !.cols = @ \cup {"ID", IF arg.n_col = None THEN "n" ELSE arg.n_col}])

\* ------------------------------------------------------- Dataset.write_file
VARIABLES
    out_res,        \* how the last Dataset.write_file call ended
    out_header,     \* the header line of the file it wrote: the labels (none: <<>>)
    out_rows        \* the other lines of the file: each the cells of a row

outVars == <<out_res, out_header, out_rows>>

\* na_rep, the cell written for a missing value
NaRep == -999

\* no Dataset.write_file call has been made
NoFileYet == out_res = "none" /\ out_header = <<>> /\ out_rows = <<>>

\* the column labels of a frame: those it was made with and those of its rows
FrameColumns(rows, columns) == Range(columns) \cup UNION {DOMAIN rows[i] : i \in 1..Len(rows)}

\* str(i + 1)
LayerLabel(layer) == ToString(layer)

\* columns_to_write: self.columns with every hsu column replaced by its layer number
ColumnsToWrite(columns, hsu_columns) ==
    [k \in 1..Len(columns) |->
        IF \E i \in 1..Len(hsu_columns) : hsu_columns[i] = columns[k]
        THEN LayerLabel(CHOOSE i \in 1..Len(hsu_columns) : hsu_columns[i] = columns[k])
        ELSE columns[k]]

\* the cell to_csv writes for a value: na_rep for a missing one (a well name is
\* never missing)
Cell(row, c) ==
    IF c \notin DOMAIN row THEN NaRep
    ELSE IF c = "Location" THEN row[c]
    ELSE IF row[c] = NaN THEN NaRep ELSE row[c]

\* DataFrame.to_csv(columns=..., header=..., index=False, na_rep=...): the columns
\* are looked up in the frame by label, and a label the frame lacks is a KeyError
ToCsv(rows, frame_columns, columns, header) ==
    IF \E k \in 1..Len(columns) : columns[k] \notin frame_columns
    THEN [res |-> "KeyError", header |-> <<>>, rows |-> <<>>]
    ELSE [res |-> "ok",
          header |-> IF header THEN columns ELSE <<>>,
          rows |-> [i \in 1..Len(rows) |->
                      [k \in 1..Len(columns) |-> Cell(rows[i], columns[k])]]]

\* Dataset.write_file(filename, sep, na_rep, float_format, header); header is None,
\* "True" or "False"
ds_write_file(header) ==
    \E wrote \in {ToCsv(df, FrameColumns(df, Columns(has_var, nlay)),
                         ColumnsToWrite(Columns(has_var, nlay), HsuColumns(nlay)),
                         IF header = None THEN TRUE ELSE header = "True")} :
       /\ out_res' = wrote.res
       /\ out_header' = wrote.header
       /\ out_rows' = wrote.rows
       /\ UNCHANGED dsVars

\* a call of Dataset.write_file
DatasetWrite == \E header \in {None, "True", "False"} : ds_write_file(header)

\* =============================================================== WellLogFile
VARIABLES
    wl_geozones,    \* WellLogFile was constructed with geozones (1 in self.columns)
    wl_df,          \* WellLogFile.df
    wl_res,         \* how the last add_well / add_wells_by_df call ended
    wl_ncalls,      \* number of calls made so far
    wl_from,        \* for each row of wl_df, the number of the call that appended it
    wl_lastwell     \* the greatest Well of wl_df before the last call (0 when none)

wlVars == <<wl_geozones, wl_df, wl_res, wl_ncalls, wl_from, wl_lastwell>>

\* WellLogFile(geozones, nlay) with no filename and no dataframe: geozones without
\* a number of layers raises, otherwise self.columns gains 1..nlay
NewWellLogFile(geozones, nl) ==
    IF geozones /\ nl = 0 THEN [res |-> "ValueError"]
    ELSE [res |-> "ok", geozones |-> geozones /\ 1 \in 1..nl, df |-> <<>>]

\* the WellLogFile a run starts with: a construction that raised leaves none
WellLogFileInit(geozones, nl) ==
    /\ NewWellLogFile(geozones, nl).res = "ok"
    /\ wl_geozones = NewWellLogFile(geozones, nl).geozones
    /\ wl_df = <<>>
    /\ wl_res = "none"
    /\ wl_ncalls = 0
    /\ wl_from = <<>>
    /\ wl_lastwell = 0

\* self.df.Well.max(), with NaN (an empty table) taken as 0
LastWell(rows) ==
    LET m == SeriesMax(Col(rows, "Well")) IN IF m = NaN THEN 0 ELSE m

\* WellLogFile.add_well(well_name, well_x, well_y, well_z, pc, depth, geozones);
\* has_geozones says that the geozones argument is not None
add_well(well_name, well_x, well_y, well_z, pc, depth, has_geozones) ==
    /\ wl_ncalls' = wl_ncalls + 1
    /\ wl_lastwell' = LastWell(wl_df)
    /\ IF Len(pc) # Len(depth) \/ (wl_geozones /\ ~has_geozones)
       THEN /\ wl_res' = "ValueError"
            /\ UNCHANGED <<wl_df, wl_from>>
       ELSE LET lastwell == LastWell(wl_df)
                well_df == [i \in 1..Len(pc) |->
                               [WellName |-> well_name, Well |-> lastwell + 1, Point |-> i,
                                PC |-> pc[i], X |-> well_x, Y |-> well_y, Zland |-> well_z,
                                Depth |-> depth[i]]]
            IN /\ wl_res' = "ok"
               /\ wl_df' = wl_df \o well_df
               /\ wl_from' = wl_from \o [i \in 1..Len(pc) |-> wl_ncalls + 1]
    /\ UNCHANGED wl_geozones

\* WellLogFile.add_wells_by_df(df) with the default column names (name_col is passed
\* as 'Location') and point_col None
wl_add_wells_by_df(rows) ==
    \E df1 \in {AssignID(rows)} :
    \E sorted \in {SortByIDDepth(df1)} :
    \E df2 \in {SetPointIndex(sorted, "Point")} :
    \E well_df \in {[i \in 1..Len(df2) |->
                       [WellName |-> df2[i].Location, Well |-> df2[i].ID,
                        Point |-> df2[i].Point, PC |-> df2[i].PC, X |-> df2[i].X,
                        Y |-> df2[i].Y, Zland |-> df2[i].Zland, Depth |-> df2[i].Depth]]} :
       /\ wl_ncalls' = wl_ncalls + 1
       /\ wl_lastwell' = LastWell(wl_df)
       /\ wl_res' = "ok"
       /\ wl_df' = wl_df \o well_df
       /\ wl_from' = wl_from \o [i \in 1..Len(df2) |-> wl_ncalls + 1]
       /\ UNCHANGED wl_geozones

\* a call of add_well: a well of up to two points; the depth list may be shorter
WellCall ==
    /\ wl_ncalls < MaxCalls
    /\ \E w \in Wells, np \in 0..2, nd \in 0..2, gz \in BOOLEAN :
          add_well(w.name, w.x, w.y, 50, [i \in 1..np |-> 10 + i], [i \in 1..nd |-> i], gz)

\* a call of add_wells_by_df: a frame of up to MaxRows rows
WellsCall ==
    /\ wl_ncalls < MaxCalls
    /\ \E k \in 0..MaxRows :
         \E ws \in [1..k -> Wells], ds \in [1..k -> 1..MaxDepth] :
            wl_add_wells_by_df([i \in 1..k |->
                [Location |-> ws[i].name, X |-> ws[i].x, Y |-> ws[i].y, Zland |-> 50,
                 Depth |-> ds[i], PC |-> 10 + i]])

\* ================================================= PilotPoint and InputFile
\* ------------------------------------------------------- numbers and text
\* A Python value that gets formatted: a float m * 10^e (-9 <= e <= 298, m a machine
\* integer of the checker), an int m, a str s or None
FloatVal(m, e) == [t |-> "float", m |-> m, e |-> e, s |-> ""]

IntVal(n) == [t |-> "int", m |-> n, e |-> 0, s |-> ""]

StrVal(x) == [t |-> "str", m |-> 0, e |-> 0, s |-> x]

NoneVal == [t |-> "none", m |-> 0, e |-> 0, s |-> ""]

Abs(n) == IF n < 0 THEN 0 - n ELSE n

RECURSIVE Pow10(_)
Pow10(k) == IF k <= 0 THEN 1 ELSE 10 * Pow10(k - 1)

\* ch * n (the empty string when n is not positive)
RECURSIVE Repeat(_, _)
Repeat(ch, n) == IF n <= 0 THEN "" ELSE ch \o Repeat(ch, n - 1)

\* sep.join(parts)
RECURSIVE Join(_, _)
Join(parts, sep) ==
    IF parts = <<>> THEN ""
    ELSE IF Len(parts) = 1 THEN parts[1]
    ELSE parts[1] \o sep \o Join(Tail(parts), sep)

\* the decimal digits of n >= 0, zero-padded on the left to width w
ZeroPad(n, w) == Repeat("0", w - Len(ToString(n))) \o ToString(n)

\* f'{s:12s}': s left-justified in w characters, never truncated
Ljust(s, w) == s \o Repeat(" ", w - Len(s))

\* ---- the double a decimal is stored as: Python formats the binary double nearest
\* to m * 10^e, so a decimal tie is settled by the side that double lies on
\* the number of times n is halved while the half is still at least d
RECURSIVE Halvings(_, _)
Halvings(n, d) == IF n \div 2 >= d THEN 1 + Halvings(n \div 2, d) ELSE 0

\* the number of times n > 0 is doubled before it is at least d
RECURSIVE Doublings(_, _)
Doublings(n, d) == IF n >= d THEN 0 ELSE 1 + Doublings(2 * n, d)

\* (r * 2^n) % d, by halves of n
RECURSIVE DoubleMod(_, _, _)
DoubleMod(r, d, n) ==
    IF r = 0 \/ n <= 0 THEN r
    ELSE IF n = 1 THEN (2 * r) % d
    ELSE DoubleMod(DoubleMod(r, d, n \div 2), d, n - n \div 2)

\* the 53-bit double nearest to m / 10^k (m > 0, 0 < k <= 9): "exact" when it is
\* m / 10^k, otherwise "above" or "below" it.  With m * 2^-t / 10^k in [1, 2) the
\* double is m * 2^s / 10^k rounded to an integer, s = 52 - t, over 2^s
DoubleSide(m, k) ==
    LET d == Pow10(k)
        s == IF m >= d THEN 52 - Halvings(m, d) ELSE 52 + Doublings(m, d)
    IN IF m % (5^k) = 0 THEN "exact"
       ELSE IF 2 * DoubleMod(m % d, d, s) > d THEN "above" ELSE "below"

\* ---- whole numbers too large for the machine integers of the checker, held as
\* limbs, the lowest first, with no zero limb at the top
LimbBase == 32768

DecBase == 1000000

\* the limbs to LimbBase of n >= 0
RECURSIVE Limbs(_)
Limbs(n) == IF n = 0 THEN <<>> ELSE <<n % LimbBase>> \o Limbs(n \div LimbBase)

\* the limbs to base of k * a + carry, a given by its limbs (k and carry no more
\* than 2^15): the lower half of the limbs first, its carry going into the upper
RECURSIVE TimesPlus(_, _, _, _)
TimesPlus(limbs, k, carry, base) ==
    IF limbs = <<>> THEN (IF carry = 0 THEN <<>> ELSE <<carry>>)
    ELSE IF Len(limbs) = 1
         THEN <<(limbs[1] * k + carry) % base>>
              \o (IF limbs[1] * k + carry < base THEN <<>>
                  ELSE <<(limbs[1] * k + carry) \div base>>)
    ELSE LET half == Len(limbs) \div 2
             low == TimesPlus(SubSeq(limbs, 1, half), k, carry, base)
         IN SubSeq(low, 1, half)
            \o TimesPlus(SubSeq(limbs, half + 1, Len(limbs)), k,
                         IF Len(low) > half THEN low[Len(low)] ELSE 0, base)

\* the limbs to LimbBase of a * 5^e
RECURSIVE Times5Pow(_, _)
Times5Pow(limbs, e) ==
    IF limbs = <<>> THEN <<>>
    ELSE IF e <= 6 THEN TimesPlus(limbs, 5^e, 0, LimbBase)
    ELSE Times5Pow(Times5Pow(limbs, e \div 2), e - e \div 2)

\* the number of binary digits of a > 0, limbs to LimbBase
BitLen(limbs) ==
    15 * (Len(limbs) - 1) + CHOOSE b \in 1..15 : 2^(b - 1) <= limbs[Len(limbs)]
                                                  /\ limbs[Len(limbs)] < 2^b

\* the i-th binary digit of a, the lowest being the first
Bit(limbs, i) == (limbs[(i - 1) \div 15 + 1] \div (2^((i - 1) % 15))) % 2

\* the double nearest to a * 2^e, the whole number a > 0 given by its limbs: it
\* keeps the 53 highest binary digits of a and rounds on the rest, a tie to the
\* even neighbour
IntSideOf(limbs) ==
    LET drop == BitLen(limbs) - 53
    IN IF drop <= 0 \/ \A i \in 1..drop : Bit(limbs, i) = 0 THEN "exact"
       ELSE IF Bit(limbs, drop) = 0 THEN "below"
       ELSE IF \E i \in 1..(drop - 1) : Bit(limbs, i) = 1 THEN "above"
       ELSE IF Bit(limbs, drop + 1) = 1 THEN "above" ELSE "below"

\* the side of the double that stores v, an int or a float with -9 <= v.e <= 298;
\* m * 10^e with e >= 0 is m * 5^e times 2^e
Stored(v) ==
    IF v.m = 0 THEN "exact"
    ELSE IF v.e >= 0 THEN IntSideOf(Times5Pow(Limbs(Abs(v.m)), v.e))
    ELSE DoubleSide(Abs(v.m), 0 - v.e)

\* the four lowest limbs of a with its d lowest binary digits dropped
ShiftRight(limbs, d) ==
    LET limb(i) == IF i <= Len(limbs) THEN limbs[i] ELSE 0
        q == d \div 15
        r == d % 15
    IN [j \in 1..4 |-> (limb(q + j) \div (2^r)) + (limb(q + j + 1) % (2^r)) * (2^(15 - r))]

\* the 53 binary digits the double keeps of a, and the number of digits it drops
Kept(limbs) ==
    LET drop == BitLen(limbs) - 53
    IN IF drop <= 0 THEN [limbs |-> limbs, drop |-> 0]
       ELSE [limbs |-> TimesPlus(ShiftRight(limbs, drop), 1,
                                 IF IntSideOf(limbs) = "above" THEN 1 ELSE 0, LimbBase),
             drop |-> drop]

\* the limbs to DecBase of a, given by its limbs to LimbBase (2^15 is 2048 * 16)
RECURSIVE FromLimbs(_)
FromLimbs(limbs) ==
    IF limbs = <<>> THEN <<>>
    ELSE TimesPlus(TimesPlus(FromLimbs(Tail(limbs)), 2048, 0, DecBase), 16, limbs[1], DecBase)

\* the limbs to DecBase of a * 2^s
RECURSIVE Shifted(_, _)
Shifted(limbs, s) ==
    IF limbs = <<>> THEN <<>>
    ELSE IF s <= 11 THEN TimesPlus(limbs, 2^s, 0, DecBase)
    ELSE Shifted(Shifted(limbs, s \div 2), s - s \div 2)

\* the decimal digits of the limbs lo..hi of a > 0, limbs to DecBase
RECURSIVE DecText(_, _, _)
DecText(limbs, lo, hi) ==
    IF lo = hi THEN (IF hi = Len(limbs) THEN ToString(limbs[hi]) ELSE ZeroPad(limbs[hi], 6))
    ELSE DecText(limbs, (lo + hi) \div 2 + 1, hi) \o DecText(limbs, lo, (lo + hi) \div 2)

\* the decimal digits of the double that stores |v|, 0 <= v.e <= 298: a whole
\* number, m * 10^e itself when that has no more than 53 binary digits, as it has
\* for v.e <= 6 (m is below 2^31 and 10^6 below 2^20)
DoubleDigits(v) ==
    LET shifted(kept) == Shifted(FromLimbs(kept.limbs), kept.drop + v.e)
        text(digits) == DecText(digits, 1, Len(digits))
    IN IF v.m = 0 THEN "0"
       ELSE IF v.e <= 6 THEN ToString(Abs(v.m)) \o Repeat("0", v.e)
       ELSE text(shifted(Kept(Times5Pow(Limbs(Abs(v.m)), v.e))))

\* n / 10^j (n >= 0, j > 0) rounded to an integer, where n / 10^j stands for a
\* double lying on `side` of it: a tie goes with the double, an exact tie to even
Rounded(n, j, side) ==
    LET d == Pow10(j)
        q == n \div d
        r == n % d
    IN IF 2 * r > d \/ (2 * r = d /\ (side = "above" \/ (side = "exact" /\ q % 2 = 1)))
       THEN q + 1 ELSE q

\* the 'f' presentation of a number with prec decimals, 0 < prec <= 9: the digits
\* of the double when v is whole, the decimals of v when it has no more than prec,
\* and otherwise v rounded at the last decimal
Fixed(v, prec) ==
    (IF v.m < 0 THEN "-" ELSE "")
    \o (IF v.e >= 0 THEN DoubleDigits(v) \o "." \o Repeat("0", prec)
        ELSE IF v.e + prec >= 0
             THEN ToString(Abs(v.m) \div Pow10(0 - v.e)) \o "."
                  \o ZeroPad(Abs(v.m) % Pow10(0 - v.e), 0 - v.e) \o Repeat("0", v.e + prec)
        ELSE LET scaled == Rounded(Abs(v.m), 0 - (v.e + prec), Stored(v))
             IN ToString(scaled \div Pow10(prec)) \o "." \o ZeroPad(scaled % Pow10(prec), prec))

\* the 'e' presentation with prec > 0 decimals: prec + 1 digits of the mantissa,
\* rounded when it has more, and the exponent of the first digit
Sci(v, prec) ==
    LET k == Len(ToString(Abs(v.m)))
        cut == k - (prec + 1)
        digits == IF cut <= 0 THEN Abs(v.m) * Pow10(0 - cut)
                  ELSE Rounded(Abs(v.m), cut, Stored(v))
        carry == digits = Pow10(prec + 1)
        lead == IF carry THEN 1 ELSE digits \div Pow10(prec)
        rest == IF carry THEN 0 ELSE digits % Pow10(prec)
        ex == IF v.m = 0 THEN 0 ELSE v.e + k - 1 + (IF carry THEN 1 ELSE 0)
    IN (IF v.m < 0 THEN "-" ELSE "")
       \o ToString(lead) \o "." \o ZeroPad(rest, prec)
       \o "e" \o (IF ex < 0 THEN "-" ELSE "+") \o ZeroPad(Abs(ex), 2)

\* the integer part of a number as '%d' prints it: that of the double, truncated
\* towards zero
Truncated(v) ==
    IF v.e >= 0 THEN (IF v.m < 0 THEN "-" ELSE "") \o DoubleDigits(v)
    ELSE (IF v.m < 0 /\ Abs(v.m) >= Pow10(0 - v.e) THEN "-" ELSE "")
         \o ToString(Abs(v.m) \div Pow10(0 - v.e))

\* m and e of a float with the trailing zeros of m moved into e
RECURSIVE Shortest(_, _)
Shortest(m, e) == IF m # 0 /\ m % 10 = 0 THEN Shortest(m \div 10, e + 1) ELSE [m |-> m, e |-> e]

\* repr() of a float: the shortest digits that give the double back, in exponent
\* notation when the first digit stands below 10^-4 or at 10^16 and above
Repr(v) ==
    LET n == Shortest(v.m, v.e)
        digits == ToString(Abs(n.m))
        k == Len(digits)
        ex == n.e + k - 1
    IN (IF v.m < 0 THEN "-" ELSE "")
       \o (IF n.m = 0 THEN "0.0"
           ELSE IF ex < -4 \/ ex >= 16
                THEN SubSeq(digits, 1, 1) \o (IF k > 1 THEN "." \o SubSeq(digits, 2, k) ELSE "")
                     \o "e" \o (IF ex < 0 THEN "-" ELSE "+") \o ZeroPad(Abs(ex), 2)
           ELSE IF n.e >= 0 THEN digits \o Repeat("0", n.e) \o ".0"
           ELSE IF ex >= 0 THEN SubSeq(digits, 1, ex + 1) \o "." \o SubSeq(digits, ex + 2, k)
           ELSE "0." \o Repeat("0", 0 - ex - 1) \o digits)

\* number_format % value: the text, or the exception.  A numeric format takes a
\* number only, '%s' any value
PctFormat(number_format, v) ==
    IF number_format # "%s" /\ v.t \in {"str", "none"} THEN [err |-> "TypeError", s |-> ""]
    ELSE [err |-> "ok",
          s |-> CASE number_format = "%.4f" -> Fixed(v, 4)
                  [] number_format = "%.4e" -> Sci(v, 4)
                  [] number_format = "%d" -> Truncated(v)
                  [] number_format = "%s" ->
                        IF v.t = "str" THEN v.s
                        ELSE IF v.t = "none" THEN "None"
                        ELSE IF v.t = "int" THEN ToString(v.m)
                        ELSE Repr(v)]

\* what one write produces: a line (err = "ok") or the exception that ends the write
Wrote(kind, text, desc) == [err |-> "ok", line |-> [kind |-> kind, text |-> text, desc |-> desc]]

Raised(err) == [err |-> err, line |-> [kind |-> "", text |-> "", desc |-> ""]]

\* format_spec.format(value) for one replacement field: the text, or the exception
BraceFormat(fmt, v) ==
    IF v.t = "none" THEN [err |-> "TypeError", s |-> ""]
    ELSE IF fmt = "{:s}"
         THEN IF v.t = "str" THEN [err |-> "ok", s |-> v.s] ELSE [err |-> "ValueError", s |-> ""]
    ELSE IF v.t = "str" \/ (fmt = "{:d}" /\ v.t # "int") THEN [err |-> "ValueError", s |-> ""]
    ELSE [err |-> "ok",
          s |-> CASE fmt = "{:.2f}" -> Fixed(v, 2)
                  [] fmt = "{:.3e}" -> Sci(v, 3)
                  [] fmt = "{:d}" -> ToString(v.m)]

\* ------------------------------------------------------------- PilotPoint
float_format == "{:.2f}"

sci_format == "{:.3e}"

int_format == "{:d}"

\* PilotPoint.parameters (custom_parameter_names is the same list)
PPParameters ==
    <<"KCMin", "deltaKC", "KFMin", "deltaKF", "SsC", "SsF", "SyC", "SyF", "AnisoC", "AnisoF">>

\* PilotPoint.__init__: values holds x, y, the ten parameters and Zone
PilotPoint(x, y, KCMin, deltaKC, KFMin, deltaKF, SsC, SsF, SyC, SyF, AnisoC, AnisoF, Zone) ==
    [def_format |-> [i \in 1..13 |-> IF i <= 6 THEN float_format
                                     ELSE IF i <= 10 THEN sci_format
                                     ELSE IF i <= 12 THEN float_format
                                     ELSE int_format],
     parameters_estimate |-> [i \in 1..Len(PPParameters) |-> FALSE],
     values |-> <<x, y, KCMin, deltaKC, KFMin, deltaKF, SsC, SsF, SyC, SyF, AnisoC, AnisoF, Zone>>]

\* ' '.join(def_format).format(*values): the line, or the first exception
FormatLine(def_format, values) ==
    LET fields == [i \in 1..Len(def_format) |-> BraceFormat(def_format[i], values[i])]
        bad == {i \in 1..Len(fields) : fields[i].err # "ok"}
    IN IF bad # {} THEN Raised(fields[CHOOSE i \in bad : \A j \in bad : i <= j].err)
       ELSE Wrote("pilot_point", Join([i \in 1..Len(fields) |-> fields[i].s], " "), "")

\* PilotPoint.write_line(f)
write_line(pp) == FormatLine(pp.def_format, pp.values)

\* index_fmt % index with index_fmt = '%0.2d'
IndexFmt(index) == ZeroPad(index, 2)

\* f'{p_delimiter} {pstring:12s} {p_delimiter}'
PPToken(name, index, p_delimiter) ==
    p_delimiter \o " " \o Ljust(name \o "_" \o IndexFmt(index), 12) \o " " \o p_delimiter

\* the list position (counted from 1) that the loop of write_template_line writes
\* for the parameter at enumerate index i (counted from 0): fmt_string[3 + i]
TemplateSlot(i) == 3 + i + 1

\* the loop of PilotPoint.write_template_line: fmt_string and temp_values are the
\* lists self.def_format and self.values themselves, so the pilot point is changed
Templated(pp, index, p_delimiter) ==
    LET flagged(k) == \E i \in 0..(Len(PPParameters) - 1) :
                          TemplateSlot(i) = k /\ pp.parameters_estimate[i + 1]
        param(k) == CHOOSE i \in 0..(Len(PPParameters) - 1) : TemplateSlot(i) = k
    IN [pp EXCEPT
          !.def_format = [k \in 1..Len(pp.def_format) |->
                             IF flagged(k) THEN "{:s}" ELSE pp.def_format[k]],
          !.values = [k \in 1..Len(pp.values) |->
                         IF flagged(k)
                         THEN StrVal(PPToken(PPParameters[param(k) + 1], index, p_delimiter))
                         ELSE pp.values[k]]]

\* list.index(name): the first place of name in list (0 when it is not in it, where
\* Python raises ValueError)
Index(list, name) ==
    IF \E i \in 1..Len(list) : list[i] = name
    THEN CHOOSE i \in 1..Len(list) : list[i] = name /\ \A j \in 1..(i - 1) : list[j] # name
    ELSE 0

\* the place in pnames of the first name that is not in list, Len(pnames) + 1 when
\* every name is in it
FirstUnknown(list, pnames) ==
    LET unknown == {k \in 1..Len(pnames) : Index(list, pnames[k]) = 0}
    IN IF unknown = {} THEN Len(pnames) + 1
       ELSE CHOOSE k \in unknown : \A j \in unknown : k <= j

\* PilotPoint.set_est_parameters(pnames): the pilot point after the call and how the
\* call ended.  The loop stops at the first name that is not in parameters, the
\* flags of the names before it are set
pp_set_est_parameters(pp, pnames) ==
    LET stop == FirstUnknown(PPParameters, pnames)
        set == {Index(PPParameters, pnames[k]) : k \in 1..(stop - 1)}
    IN [res |-> IF stop > Len(pnames) THEN "ok" ELSE "ValueError",
        pp |-> [pp EXCEPT !.parameters_estimate =
                   [i \in 1..Len(PPParameters) |-> @[i] \/ i \in set]]]

\* -------------------------------------------------------------- InputFile
MaxPilotPoints == 2
MaxWrites == 3

VARIABLES
    modeltype,              \* InputFile.modeltype
    files,                  \* the path attributes of the InputFile (None when not given)
    parameters,             \* InputFile.parameters, the list of the parameter names
    parameters_estimate,    \* InputFile.parameters_estimate
    est_call,               \* the names and the outcome of the last set_est_parameters call
    pp_est_res,             \* how the last set_pp_est_parameters call ended
    aquifer_pp,             \* InputFile.aquifer_pp
    aquitard_pp,            \* InputFile.aquitard_pp
    f,                      \* the lines of the file the last write_file call left
    wres,                   \* how the last write_file call ended
    wtemplate,              \* the template_file argument of the last write_file call
    nwrites,                \* number of write_file calls made so far
    lit_set,                \* a literal-mode write was made since the model last changed
    lit_lines               \* the lines the first such write left

inVars == <<modeltype, files, parameters, parameters_estimate, est_call, pp_est_res, aquifer_pp,
            aquitard_pp, f, wres, wtemplate, nwrites, lit_set, lit_lines>>

\* self.custom_parameter_names = self.parameters: one list under two names
custom_parameter_names == parameters

header_line == "*" \o Repeat("=", 79)

divider == "*" \o Repeat("-", 79)

header_text == "Texture2Par Input File  |  Written by t2py"

\* InputFile.sections, each title cut at its replacement field '{}'
sections ==
    <<  <<"Model Settings (", "{}", ")">>,
        <<"Program Settings (True/False)">>,
        <<"Variogram Settings">>,
        <<"Global Settings">>,
        <<"Pilot Points - X  Y  KCMin  deltaKC  KFMin  deltaKF  SsC  SsF  SyC  SyF  AnisoC  AnisoF  Zone">>,
        <<"Aquitard Pilot Points - X  Y  KCMin  deltaKC  KFMin  deltaKF  AnisoC  AnisoF  Zone">>  >>

\* the list InputFile.__init__ makes for parameters
Parameters ==
    <<"sill", "range_max", "range_min", "anisotropy", "nugget", "nkrige_wells",
      "KCk", "KFk", "KHp", "KVp", "Syp">>

\* the numeric attributes, at the defaults of InputFile.__init__
Settings ==
    [xoff |-> FloatVal(0, 0), yoff |-> FloatVal(0, 0), rotation |-> FloatVal(0, 0),
     full_output |-> "False", variogram_type |-> IntVal(1),
     sill |-> FloatVal(1, 0), range_max |-> FloatVal(1, 7), range_min |-> FloatVal(1, 7),
     anistropy |-> FloatVal(0, 0), nugget |-> FloatVal(0, 0), nkrige_wells |-> IntVal(16),
     KCk |-> FloatVal(7, -3), KFk |-> FloatVal(99, -4), KHp |-> FloatVal(93, -2),
     KVp |-> FloatVal(-62, -2), Syp |-> FloatVal(1, 0)]

float_precision == "%.4f"

sci_precision == "%.4e"

\* the places of the dots of a file name
Dots(name) == {k \in 1..Len(name) : SubSeq(name, k, k) = "."}

\* sim_file.split('.'): the parts of the name between its dots
RECURSIVE Split(_)
Split(name) ==
    IF Dots(name) = {} THEN <<name>>
    ELSE LET k == CHOOSE d \in Dots(name) : \A e \in Dots(name) : d <= e
         IN <<SubSeq(name, 1, k - 1)>> \o Split(SubSeq(name, k + 1, Len(name)))

\* a detection that looks for 'nam' among all the parts
DetectModelTypeAnyPart(sim_parts) ==
    IF \E i \in 1..Len(sim_parts) : sim_parts[i] = "nam" THEN "MODFLOW" ELSE "IWFM"

\* sim_file.split('.')[-1] == 'nam', for a file name given as its parts between dots
DetectModelType(sim_parts) == IF sim_parts[Len(sim_parts)] = "nam" THEN "MODFLOW" ELSE "IWFM"

\* InputFile.__init__ with a sim_file and, for IWFM, a preproc_file
InputFileInit(well_log_file, hydrogeo_unit_file, sim_parts, preproc_file, template_file, pp_zone) ==
    /\ modeltype = DetectModelType(sim_parts)
    /\ files = [well_log_file |-> well_log_file, unit_file |-> hydrogeo_unit_file,
                sim_file |-> Join(sim_parts, "."), preproc_file |-> preproc_file,
                template_file |-> template_file, pp_zone |-> pp_zone]
    /\ aquifer_pp = <<>>
    /\ aquitard_pp = <<>>
    /\ parameters = Parameters
    /\ parameters_estimate = [i \in 1..Len(Parameters) |-> FALSE]
    /\ est_call = [pnames |-> <<>>, res |-> "none"]
    /\ pp_est_res = "none"

\* no write_file call has been made
NoWriteYet ==
    /\ f = <<>>
    /\ wres = "none"
    /\ wtemplate = FALSE
    /\ nwrites = 0
    /\ lit_set = FALSE
    /\ lit_lines = <<>>

\* a change of the model: the text of an earlier write is no longer the model's
Changed == lit_set' = FALSE /\ lit_lines' = <<>>

\* InputFile.add_pilot_point(..., aquitard): a PilotPoint either way, without
\* storage values when aquitard
add_pilot_point(x, y, KCMin, deltaKC, KFMin, deltaKF, SsC, SsF, SyC, SyF, AnisoC, AnisoF, Zone, aquitard) ==
    /\ IF ~aquitard
       THEN /\ aquifer_pp' = Append(aquifer_pp,
                                PilotPoint(x, y, KCMin, deltaKC, KFMin, deltaKF,
                                           SsC, SsF, SyC, SyF, AnisoC, AnisoF, Zone))
            /\ UNCHANGED aquitard_pp
       ELSE /\ aquitard_pp' = Append(aquitard_pp,
                                PilotPoint(x, y, KCMin, deltaKC, KFMin, deltaKF,
                                           NoneVal, NoneVal, NoneVal, NoneVal,
                                           AnisoC, AnisoF, Zone))
            /\ UNCHANGED aquifer_pp
    /\ Changed
    /\ UNCHANGED <<modeltype, files, parameters, parameters_estimate, est_call, pp_est_res,
                   f, wres, wtemplate, nwrites>>

\* InputFile.add_aquitard_pilot_point(...)
add_aquitard_pilot_point(x, y, KCMin, deltaKC, KFMin, deltaKF, AnisoC, AnisoF, Zone) ==
    add_pilot_point(x, y, KCMin, deltaKC, KFMin, deltaKF, NoneVal, NoneVal, NoneVal, NoneVal,
                    AnisoC, AnisoF, Zone, TRUE)

\* InputFile.set_est_parameters(pnames): the loop stops at the first name that is
\* not in parameters, the flags of the names before it are set
set_est_parameters(pnames) ==
    LET stop == FirstUnknown(parameters, pnames)
        set == {Index(parameters, pnames[k]) : k \in 1..(stop - 1)}
    IN /\ parameters_estimate' =
             [i \in 1..Len(parameters) |-> parameters_estimate[i] \/ i \in set]
       /\ est_call' = [pnames |-> pnames,
                       res |-> IF stop > Len(pnames) THEN "ok" ELSE "ValueError"]
       /\ Changed
       /\ UNCHANGED <<modeltype, files, parameters, pp_est_res, aquifer_pp, aquitard_pp,
                      f, wres, wtemplate, nwrites>>

\* custom_parameter_names[i] = name (i counted from 0): an override of the display
\* name of one parameter
set_custom_parameter_name(i, name) ==
    /\ parameters' = [custom_parameter_names EXCEPT ![i + 1] = name]
    /\ Changed
    /\ UNCHANGED <<modeltype, files, parameters_estimate, est_call, pp_est_res,
                   aquifer_pp, aquitard_pp, f, wres, wtemplate, nwrites>>

\* for pp in pps: pp.set_est_parameters(pnames): the pilot points after the loop and
\* how it ended.  The first call that raises ends the loop, with the pilot points
\* after it untouched
EachSetEstParameters(pps, pnames) ==
    LET raised == {i \in 1..Len(pps) : pp_set_est_parameters(pps[i], pnames).res # "ok"}
        stop == IF raised = {} THEN Len(pps)
                ELSE CHOOSE i \in raised : \A j \in raised : i <= j
    IN [res |-> IF raised = {} THEN "ok" ELSE "ValueError",
        pps |-> [i \in 1..Len(pps) |->
                    IF i <= stop THEN pp_set_est_parameters(pps[i], pnames).pp ELSE pps[i]]]

\* InputFile.set_pp_est_parameters(pnames, aquitard)
set_pp_est_parameters(pnames, aquitard) ==
    /\ IF ~aquitard
       THEN /\ aquifer_pp' = EachSetEstParameters(aquifer_pp, pnames).pps
            /\ pp_est_res' = EachSetEstParameters(aquifer_pp, pnames).res
            /\ UNCHANGED aquitard_pp
       ELSE /\ aquitard_pp' = EachSetEstParameters(aquitard_pp, pnames).pps
            /\ pp_est_res' = EachSetEstParameters(aquitard_pp, pnames).res
            /\ UNCHANGED aquifer_pp
    /\ Changed
    /\ UNCHANGED <<modeltype, files, parameters, parameters_estimate, est_call,
                   f, wres, wtemplate, nwrites>>

\* a padding that cuts a line longer than the column off at the column
PaddedCut(line, description) ==
    SubSeq(line, 1, IF Len(line) < 40 THEN Len(line) ELSE 40)
    \o Repeat(" ", 40 - Len(line)) \o "/ " \o description

\* line += ' ' * pad_len; f.write(f'{line}/ {description}\n')
Padded(line, description) == line \o Repeat(" ", 40 - Len(line)) \o "/ " \o description

\* InputFile._write_section_header(f, section_id, extra)
WriteSectionHeader(section_id, extra) ==
    LET title == Join([i \in 1..Len(sections[section_id + 1]) |->
                          IF sections[section_id + 1][i] = "{}" THEN extra
                          ELSE sections[section_id + 1][i]], "")
    IN <<Wrote("divider", divider, ""),
         Wrote("section", "* " \o title, ""),
         Wrote("divider", divider, "")>>

\* InputFile._write_string(f, string, description): ' ' + None is a TypeError
WriteString(string, description) ==
    IF string = None THEN Raised("TypeError")
    ELSE Wrote("string", Padded(" " \o string, description), description)

\* the placeholder of _write_value: f'{p_delimiter} {use_name:12s} {p_delimiter}'
ValueToken(use_name, p_delimiter) == p_delimiter \o " " \o Ljust(use_name, 12) \o " " \o p_delimiter

\* InputFile._write_value(f, value, number_format, description, name, template_file,
\* p_delimiter); name is '' in the calls that pass none
WriteValue(value, number_format, description, name, template_file, p_delimiter) ==
    LET idx == Index(parameters, name)
        write(default) ==
            IF default.err # "ok" THEN Raised(default.err)
            ELSE IF template_file /\ idx = 0 THEN Raised("ValueError")
            ELSE Wrote("value",
                       Padded(IF template_file /\ parameters_estimate[idx]
                              THEN ValueToken(custom_parameter_names[idx], p_delimiter)
                              ELSE " " \o default.s, description),
                       description)
    IN write(PctFormat(number_format, value))

\* the writes of write_file up to the header of the aquifer pilot points
WriteSettings(template_file, p_delimiter) ==
    LET V(value, fmt, description, name) ==
            <<WriteValue(value, fmt, description, name, template_file, p_delimiter)>>
        U(value, fmt, description) ==
            <<WriteValue(value, fmt, description, "", FALSE, p_delimiter)>>
        S(string, description) == <<WriteString(string, description)>>
        interp_point_string == IF modeltype = "IWFM" THEN "Node" ELSE "Cell"
    IN (IF template_file THEN <<Wrote("ptf", "ptf " \o p_delimiter, "")>> ELSE <<>>)
       \o <<Wrote("header_line", header_line, ""),
            Wrote("header_text", "* " \o header_text, ""),
            Wrote("header_line", header_line, "")>>
       \o S(modeltype, "Model Type")
       \o S(files.well_log_file, "Well Log File")
       \o S(files.unit_file, "Hydrogeologic Units File")
       \o WriteSectionHeader(0, modeltype)
       \o (IF modeltype = "IWFM"
           THEN S(files.sim_file, "Simulation File")
                \o S(files.preproc_file, "Pre-processor File")
                \o S(files.template_file, "GW Template File")
                \o S(files.pp_zone, "Pilot Point Node Zones File")
           ELSE S(files.sim_file, "Name File")
                \o S(files.template_file, "Layer Parameter Template File")
                \o S(files.pp_zone, "Pilot Point Node Zones File")
                \o U(Settings.xoff, float_precision, "xOffset")
                \o U(Settings.yoff, float_precision, "yOffset")
                \o U(Settings.rotation, float_precision, "Rotation"))
       \o WriteSectionHeader(1, None)
       \o S(Settings.full_output, "Output " \o interp_point_string \o " Files")
       \o WriteSectionHeader(2, None)
       \o U(Settings.variogram_type, "%s", "Variogram Type (itype)")
       \o V(Settings.sill, float_precision, "Sill", "sill")
       \o V(Settings.range_max, sci_precision, "[Maximum] Range", "range_max")
       \o V(Settings.range_min, sci_precision, "Minimum Range", "range_min")
       \o V(Settings.anistropy, float_precision, "Anisotropy Angle (from North)", "anisotropy")
       \o V(Settings.nugget, float_precision, "Nugget", "nugget")
       \o V(Settings.nkrige_wells, "%d", "[Maximum] Wells used in kriging", "nkrige_wells")
       \o WriteSectionHeader(3, None)
       \o V(Settings.KCk, float_precision, "KCk", "KCk")
       \o V(Settings.KFk, float_precision, "KFk", "KFk")
       \o V(Settings.KHp, float_precision, "KHp", "KHp")
       \o V(Settings.KVp, float_precision, "KVp", "KVp")
       \o V(Settings.Syp, float_precision, "Syp", "Syp")
       \o WriteSectionHeader(4, None)

\* the index of the first write that raises, Len(ws) + 1 when none does
FirstRaise(ws) ==
    LET bad == {i \in 1..Len(ws) : ws[i].err # "ok"}
    IN IF bad = {} THEN Len(ws) + 1 ELSE CHOOSE i \in bad : \A j \in bad : i <= j

\* InputFile.write_file(filename, template_file, p_delimiter): the lines the file
\* holds when the call ends, how it ends, and the aquifer pilot points it leaves
write_file(template_file, p_delimiter) ==
    LET settings == WriteSettings(template_file, p_delimiter)
        n == Len(aquifer_pp)
        \* for i, pp in enumerate(self.aquifer_pp)
        after(i) == IF template_file THEN Templated(aquifer_pp[i], i - 1, p_delimiter)
                    ELSE aquifer_pp[i]
        aquifer == [i \in 1..n |-> write_line(after(i))]
        \* for pp in self.aquitard_pp: the template call passes index=i, which is
        \* unbound when the loop above ran no round, and a keyword template_file
        \* that write_template_line does not take
        aquitard == [j \in 1..Len(aquitard_pp) |->
                        IF ~template_file THEN write_line(aquitard_pp[j])
                        ELSE IF n = 0 THEN Raised("UnboundLocalError")
                        ELSE Raised("TypeError")]
        \* the file and the pilot points when the writes ws stop at the first raise
        ended(ws, before) ==
            LET stop == FirstRaise(ws)
            IN [lines |-> [i \in 1..(stop - 1) |-> ws[i].line],
                res |-> IF stop > Len(ws) THEN "ok" ELSE ws[stop].err,
                aquifer_pp |-> [i \in 1..n |-> IF before + i <= stop THEN after(i)
                                               ELSE aquifer_pp[i]]]
    IN CHOOSE w \in {ended(ws, Len(settings)) :
                       ws \in {settings \o aquifer \o WriteSectionHeader(5, None) \o aquitard
                               \o <<Wrote("divider", divider, ""), Wrote("eof", "* EOF", "")>>}} :
          TRUE

\* ----------------------------------------------- inputs of the InputFile runs
\* a pilot point at x: the other arguments are the same for all
PPArgs(x) ==
    [x |-> FloatVal(x, 0), y |-> FloatVal(5, 0), KCMin |-> FloatVal(15, -1),
     deltaKC |-> FloatVal(2, 0), KFMin |-> FloatVal(25, -2), deltaKF |-> FloatVal(5, -1),
     SsC |-> FloatVal(1, -5), SsF |-> FloatVal(25, -5), SyC |-> FloatVal(1, -1),
     SyF |-> FloatVal(25, -2), AnisoC |-> FloatVal(10, 0), AnisoF |-> FloatVal(10, 0),
     Zone |-> IntVal(1)]

NPilotPoints == Len(aquifer_pp) + Len(aquitard_pp)

AddPilotPoint ==
    /\ NPilotPoints < MaxPilotPoints
    /\ \E aquitard \in BOOLEAN :
         LET a == PPArgs(NPilotPoints + 1)
         IN add_pilot_point(a.x, a.y, a.KCMin, a.deltaKC, a.KFMin, a.deltaKF, a.SsC, a.SsF,
                            a.SyC, a.SyF, a.AnisoC, a.AnisoF, a.Zone, aquitard)

AddAquitardPilotPoint ==
    /\ NPilotPoints < MaxPilotPoints
    /\ LET a == PPArgs(NPilotPoints + 1)
       IN add_aquitard_pilot_point(a.x, a.y, a.KCMin, a.deltaKC, a.KFMin, a.deltaKF,
                                   a.AnisoC, a.AnisoF, a.Zone)

SetEstParameters ==
    \E pnames \in {<<"sill", "range_max">>} : set_est_parameters(pnames)

SetPPEstParameters ==
    \E pnames \in {<<"KCMin">>, <<"SsC", "AnisoF">>}, aquitard \in BOOLEAN :
        set_pp_est_parameters(pnames, aquitard)

WriteFile ==
    /\ nwrites < MaxWrites
    /\ \E template_file \in BOOLEAN :
       \E p_delimiter \in IF template_file THEN {"$", "#"} ELSE {"$"} :
         \E w \in {write_file(template_file, p_delimiter)} :
            /\ f' = w.lines
            /\ wres' = w.res
            /\ aquifer_pp' = w.aquifer_pp
            /\ wtemplate' = template_file
            /\ nwrites' = nwrites + 1
            /\ IF ~template_file /\ ~lit_set
               THEN lit_set' = TRUE /\ lit_lines' = w.lines
               ELSE UNCHANGED <<lit_set, lit_lines>>
            /\ UNCHANGED <<modeltype, files, parameters, parameters_estimate, est_call,
                           pp_est_res, aquitard_pp>>

\* the lists of names of the catalog runs, of a parameter, a name that is none and
\* an overriding display name
NameLists ==
    LET names == {"sill", "bogus", "S1"}
    IN UNION {[1..n -> names] : n \in 1..2}

\* a set_est_parameters call with any of the lists
SelectNames == \E pnames \in NameLists : set_est_parameters(pnames)

\* the lists of names for the pilot points of the catalog runs, of one of their
\* parameters and a name that is none
PPNameLists ==
    LET names == {"KCMin", "bogus"}
    IN UNION {[1..n -> names] : n \in 1..2}

\* a set_pp_est_parameters call with any of the lists
SelectPPNames ==
    \E pnames \in PPNameLists, aquitard \in BOOLEAN : set_pp_est_parameters(pnames, aquitard)

\* an override of the display name of one of the first two parameters
SetCustomName == \E i \in 0..1 : set_custom_parameter_name(i, "S1")

\* ------------------------------------------------ construction of InputFile
MaxParts == 3

VARIABLES
    ctor_sim_file,          \* the sim_file argument of the InputFile(...) call
    ctor_preproc_file,      \* its preproc_file argument
    ctor_res,               \* how the call ended
    ctor_modeltype          \* self.modeltype when the call ended

ctVars == <<ctor_sim_file, ctor_preproc_file, ctor_res, ctor_modeltype>>

\* InputFile.__init__ as far as it can fail: None has no split, and IWFM needs a
\* pre-processor file
NewInputFile(sim_file, preproc_file) ==
    IF sim_file = None THEN [res |-> "AttributeError", modeltype |-> None]
    ELSE LET detected == DetectModelType(Split(sim_file))
         IN IF detected = "IWFM" /\ preproc_file = None
            THEN [res |-> "ValueError", modeltype |-> detected]
            ELSE [res |-> "ok", modeltype |-> detected]

\* the pieces the file names of the construction runs are put together from
NameParts == {"nam", "in", "model", ""}

\* the file names of the construction runs: up to MaxParts pieces joined by dots
SimFiles ==
    UNION {{Join(parts, ".") : parts \in [1..n -> NameParts]} : n \in 1..MaxParts}

\* no InputFile(...) call has been made with the arguments drawn
NotConstructed(sim_file, preproc_file) ==
    /\ ctor_sim_file = sim_file
    /\ ctor_preproc_file = preproc_file
    /\ ctor_res = "none"
    /\ ctor_modeltype = None

\* the InputFile(...) call
Construct ==
    /\ ctor_res = "none"
    /\ \E made \in {NewInputFile(ctor_sim_file, ctor_preproc_file)} :
          /\ ctor_res' = made.res
          /\ ctor_modeltype' = made.modeltype
    /\ UNCHANGED <<ctor_sim_file, ctor_preproc_file>>

\* ==================================================================== runs
vars == <<dsVars, outVars, wlVars, inVars, ctVars>>

ConstructIdle == NotConstructed(None, None)

\* the objects a run is not about stay as constructed
DatasetIdle == DatasetInit(FALSE, FALSE, 0, FALSE, <<>>) /\ NoCallYet(<<>>, NoArg) /\ NoFileYet

WellLogIdle == WellLogFileInit(FALSE, 0)

InputIdle ==
    InputFileInit("wells.dat", "units.dat", <<"model", "nam">>, None, None, None) /\ NoWriteYet

GapInit ==
    /\ DatasetInit(TRUE, TRUE, 1, FALSE, <<>>) /\ GapInputs(batch, arg) /\ NoCallYet(batch, arg)
    /\ NoFileYet
    /\ WellLogIdle /\ InputIdle /\ ConstructIdle

GapNext ==
    \/ GapCall /\ UNCHANGED <<outVars, wlVars, inVars, ctVars>>
    \/ GapAgain /\ UNCHANGED <<outVars, wlVars, inVars, ctVars>>

GapSpec == GapInit /\ [][GapNext]_vars

StoreInit ==
    /\ \E hv \in BOOLEAN, hsus \in BOOLEAN, nl \in 0..1, given \in BOOLEAN :
          \E table \in {<<>>, StoredTable(hv, IF hsus THEN nl ELSE 0)} :
              DatasetInit(hv, hsus, nl, given, table) /\ NoCallYet(<<>>, NoArg)
    /\ NoFileYet
    /\ WellLogIdle /\ InputIdle /\ ConstructIdle

StoreNext == StoreCall /\ UNCHANGED <<outVars, wlVars, inVars, ctVars>>

StoreSpec == StoreInit /\ [][StoreNext]_vars

FileNext ==
    \/ StoreCall /\ UNCHANGED <<outVars, wlVars, inVars, ctVars>>
    \/ DatasetWrite /\ UNCHANGED <<wlVars, inVars, ctVars>>

FileSpec == StoreInit /\ [][FileNext]_vars

WellLogInit ==
    DatasetIdle /\ InputIdle /\ ConstructIdle /\ \E gz \in BOOLEAN, nl \in 0..1 : WellLogFileInit(gz, nl)

WellLogNext ==
    \/ WellCall /\ UNCHANGED <<dsVars, outVars, inVars, ctVars>>
    \/ WellsCall /\ UNCHANGED <<dsVars, outVars, inVars, ctVars>>

WellLogSpec == WellLogInit /\ [][WellLogNext]_vars

InputInit ==
    /\ DatasetIdle /\ WellLogIdle /\ ConstructIdle
    /\ \/ InputFileInit("wells.dat", "units.dat", <<"model", "nam">>, None,
                        "layers.tpl", "zones.dat")
       \/ InputFileInit("wells.dat", "units.dat", <<"Simulation", "in">>, "Preproc.in",
                        None, None)
       \/ InputFileInit("projects/basin/texture2par/input/well_logs.dat",
                        "projects/basin/texture2par/hsu_unit.dat",
                        <<"Simulation", "in">>, "Preproc.in", "GW.tpl", "zones.dat")
    /\ NoWriteYet

InputNext ==
    \/ AddPilotPoint /\ UNCHANGED <<dsVars, outVars, wlVars, ctVars>>
    \/ AddAquitardPilotPoint /\ UNCHANGED <<dsVars, outVars, wlVars, ctVars>>
    \/ SetEstParameters /\ UNCHANGED <<dsVars, outVars, wlVars, ctVars>>
    \/ SetPPEstParameters /\ UNCHANGED <<dsVars, outVars, wlVars, ctVars>>
    \/ WriteFile /\ UNCHANGED <<dsVars, outVars, wlVars, ctVars>>

InputSpec == InputInit /\ [][InputNext]_vars

CatalogNext ==
    \/ SelectNames /\ UNCHANGED <<dsVars, outVars, wlVars, ctVars>>
    \/ SetCustomName /\ UNCHANGED <<dsVars, outVars, wlVars, ctVars>>
    \/ AddPilotPoint /\ UNCHANGED <<dsVars, outVars, wlVars, ctVars>>
    \/ SelectPPNames /\ UNCHANGED <<dsVars, outVars, wlVars, ctVars>>

CatalogSpec == InputInit /\ [][CatalogNext]_vars

ConstructInit ==
    /\ DatasetIdle /\ WellLogIdle /\ InputIdle
    /\ \E sim_file \in SimFiles \cup {None}, preproc_file \in {None, "Preproc.in"} :
          NotConstructed(sim_file, preproc_file)

ConstructNext == Construct /\ UNCHANGED <<dsVars, outVars, wlVars, inVars>>

ConstructSpec == ConstructInit /\ [][ConstructNext]_vars

\* ============================================================ claims: Dataset
\* the (name, x, y) tuple of a row
WellTuple(r) == <<r.Location, r.X, r.Y>>

\* the rows the store held before the last call appended pdf
StoredBefore == SubSeq(df, 1, Len(df) - Len(pdf))

\* C1: after a merge of a batch that is not empty, the rows of pdf carry the same
\* well ID exactly when they have the same (name, x, y), no row stored before has
\* one of these IDs, and max_id is the old max_id plus the number of distinct
\* (name, x, y) of the batch.
C1_DistinctTupleDistinctId ==
    (res = "ok" /\ batch # <<>>) =>
        /\ \A i, j \in 1..Len(pdf) :
              (WellTuple(pdf[i]) = WellTuple(pdf[j])) <=> (pdf[i].ID = pdf[j].ID)
        /\ \A i \in 1..Len(pdf), j \in 1..Len(StoredBefore) : StoredBefore[j].ID # pdf[i].ID
        /\ max_id = oldmax + Cardinality({WellTuple(pdf[i]) : i \in 1..Len(pdf)})

\* C2: in every state of a Dataset, max_id is the greatest well ID in the table, and
\* 0 when the table is empty.
C2_MaxIdIsGreatestId ==
    IF df = <<>> THEN max_id = 0
    ELSE /\ \E i \in 1..Len(df) : df[i].ID = max_id
         /\ \A i \in 1..Len(df) : df[i].ID <= max_id

\* the rows of the last call's frame that were given well number id
WellRows(id) == {i \in 1..Len(wdf) : wdf[i].ID = id}

\* the point indices of the rows of well id are exactly 1..k, and a row with a smaller
\* index has no greater bottom depth
PointIndicesDense(id) ==
    /\ \A i, j \in WellRows(id) : i # j => pdf[i].n # pdf[j].n
    /\ {pdf[i].n : i \in WellRows(id)} = 1..Cardinality(WellRows(id))
    /\ \A i, j \in WellRows(id) : pdf[i].n < pdf[j].n => pdf[i].Depth <= pdf[j].Depth

GapFilling == arg.depth_top_col # None /\ arg.fill_missing

\* C3 as stated: after every merge, whatever n_col, depth_top_col and fill_missing
\* were, the point indices of every well are 1..k in the order of bottom depth.
C3_PointIndicesAlways ==
    res = "ok" => \A id \in {wdf[i].ID : i \in 1..Len(wdf)} : PointIndicesDense(id)

\* C3, amended: after a merge that was given no point-index column, or that filled
\* gaps, the point indices of the rows that share a well ID are 1..k in the order of
\* bottom depth.
C3_PointIndicesWhenAssigned ==
    (res = "ok" /\ (arg.n_col = None \/ GapFilling)) =>
        \A id \in {wdf[i].ID : i \in 1..Len(wdf)} : PointIndicesDense(id)

\* a merge that was given its own point-index column, filled a gap, and ended with a
\* well of three rows
C3_Witness ==
    /\ res = "ok" /\ arg.n_col = "Point" /\ GapFilling
    /\ new_rows_list # <<>>
    /\ \E id \in {wdf[i].ID : i \in 1..Len(wdf)} : Cardinality(WellRows(id)) >= 3

\* the well number add_wells_by_df gives row i of the last call's frame
BatchId(i) == RollingCount(batch)[i]

\* no two rows of the frame that get the same well number overlap
NonOverlapping ==
    \A i, j \in 1..Len(batch) :
        (i # j /\ BatchId(i) = BatchId(j)) =>
            (batch[i].Depth <= batch[j].Top \/ batch[j].Depth <= batch[i].Top)

\* every interval of the frame has its top above its bottom
PositiveThickness == \A i \in 1..Len(batch) : batch[i].Top < batch[i].Depth

\* the rows of well id, in the order of their point index, have strictly increasing
\* bottom depth, and each one's top is the bottom of the one before (0 for the first)
Tiled(id) ==
    \A i \in WellRows(id) :
        IF pdf[i].n = 1 THEN wdf[i].Top = 0
        ELSE \E j \in WellRows(id) :
                /\ pdf[j].n = pdf[i].n - 1
                /\ wdf[i].Top = wdf[j].Depth
                /\ wdf[j].Depth < wdf[i].Depth

\* C4 as stated: after gap filling of a frame whose intervals do not overlap within a
\* well, intervals of zero thickness included, every well is tiled from 0 down.
C4_TiledAlways ==
    (res = "ok" /\ GapFilling /\ NonOverlapping) =>
        \A id \in {wdf[i].ID : i \in 1..Len(wdf)} : Tiled(id)

\* C4, amended: after gap filling of a frame whose intervals have top < bottom and do
\* not overlap within a well ID, the rows of every well ID, in the order of their
\* point index, have strictly increasing bottom depth and each top is the previous
\* bottom (0 for the first).
C4_TiledWhenPositive ==
    (res = "ok" /\ GapFilling /\ NonOverlapping /\ PositiveThickness) =>
        \A id \in {wdf[i].ID : i \in 1..Len(wdf)} : Tiled(id)

\* gap filling added a row to a frame of at least two intervals with top < bottom
\* that do not overlap
C4_Witness ==
    /\ res = "ok" /\ GapFilling /\ NonOverlapping /\ PositiveThickness
    /\ Len(batch) >= 2 /\ new_rows_list # <<>>
    /\ \E id \in {wdf[i].ID : i \in 1..Len(wdf)} : Cardinality(WellRows(id)) >= 3

\* C5: during gap filling, for the intervals of each well in ascending bottom depth
\* (in one of the orders that ascend, when bottoms are equal),
\* one synthetic row is added exactly for each interval whose top is greater than the
\* bottom before it (0 before the first); the synthetic row has that bottom as its
\* top, the interval's top as its bottom, a missing class value and a missing variance
\* value, and every other field of the interval's row.
C5_SyntheticRows ==
    (res = "ok" /\ GapFilling) =>
        \A id \in 1..Len(batch) :
          \E g \in SortByDepth(Group(AssignID(batch), id)) :
            LET prev(i) == IF i = 1 THEN 0 ELSE g[i - 1].Depth
                gaps == {i \in 1..Len(g) : g[i].Top > prev(i)}
                made == Group(new_rows_list, id)
            IN /\ Len(made) = Cardinality(gaps)
               /\ \A i \in gaps :
                    LET m == made[Cardinality({h \in gaps : h <= i})]
                    IN /\ m.Top = prev(i)
                       /\ m.Depth = g[i].Top
                       /\ m.sand = NaN
                       /\ m.var_sand = NaN
                       /\ \A c \in DOMAIN g[i] \ {"Top", "Depth", "sand", "var_sand"} :
                             m[c] = g[i][c]

\* the rows of each well are next to each other in the frame, in ascending bottom depth
WellSorted ==
    \A i, j \in 1..Len(batch) :
        (i < j /\ WellTuple(batch[i]) = WellTuple(batch[j])) =>
            /\ \A m \in i..j : WellTuple(batch[m]) = WellTuple(batch[i])
            /\ batch[i].Depth <= batch[j].Depth

\* each interval of the frame starts where the one before it in its well ends (at 0
\* for the first of a well)
GapFree ==
    \A i \in 1..Len(batch) :
        batch[i].Top = (IF i > 1 /\ WellTuple(batch[i - 1]) = WellTuple(batch[i])
                        THEN batch[i - 1].Depth ELSE 0)

\* the step is the second pass: the frame the first pass ended with is passed again
SecondPass == ncalls = 1 /\ ncalls' = 2 /\ res' = "ok"

\* C6 as stated: the second pass over the outcome of a pass over sorted,
\* non-overlapping input adds no synthetic row.
C6_SecondPassAddsNone ==
    [][(SecondPass /\ WellSorted /\ NonOverlapping) => new_rows_list' = <<>>]_vars

\* C6, amended: when the input of the first pass is sorted (by well, then bottom
\* depth), does not overlap and has no interval with top = bottom, the second pass
\* adds no synthetic row; and a pass over sorted input that is already gap-free and
\* has no interval with top = bottom adds none.
C6_SecondPassAddsNoneWhenPositive ==
    /\ [][(SecondPass /\ WellSorted /\ NonOverlapping /\ PositiveThickness)
            => new_rows_list' = <<>>]_vars
    /\ []((res = "ok" /\ GapFilling /\ WellSorted /\ GapFree /\ PositiveThickness)
            => new_rows_list = <<>>)

\* a second pass was made over a frame in which the first pass had put a synthetic
\* row between intervals, and it added none
C6_Witness ==
    /\ ncalls = 2 /\ res = "ok" /\ new_rows_list = <<>>
    /\ Len(batch) >= 3
    /\ \E i \in 1..Len(batch) : batch[i].sand = NaN /\ batch[i].Top > 0
    /\ \A i \in 1..Len(batch) : batch[i].Top < batch[i].Depth

\* the last call's frame or arguments call for a validation error
MustRaise ==
    \/ \E c \in RequiredCols : c \notin arg.cols
    \/ /\ arg.data_class_cols.given
       /\ \E it \in Range(arg.data_class_cols.items) : it.key \notin Range(Classes)
    \/ \E it \in Range(DataClassCols(arg)) : it.col \notin arg.cols
    \/ has_var /\ \E it \in Range(VarClassCols(arg)) : it.col \notin arg.cols
    \/ nlay > 0 /\ \E i \in 1..nlay : HsuName(i) \notin arg.cols

\* C7: a call whose frame lacks a required column, that names a class the Dataset
\* does not have or one whose column the frame lacks, that lacks a variance column
\* with variance on, or an hsu column with zone layers on, raises ValueError; and a
\* step in which a call raises leaves the table and max_id as they were.
C7_RaisesAndLeavesStore ==
    /\ []((res # "none" /\ MustRaise) => res = "ValueError")
    /\ [][(res' \in {"ValueError", "KeyError"} /\ ncalls' = ncalls + 1)
            => (df' = df /\ max_id' = max_id)]_vars

\* a call that lacked the hsu column was rejected by a store that holds rows
C7_Witness ==
    /\ res = "ValueError" /\ df # <<>> /\ ncalls = 2
    /\ nlay = 1 /\ "hsu_1" \notin arg.cols

\* ======================================================== claims: WellLogFile
\* C8: after any add_well and add_wells_by_df calls, the rows the last call appended
\* have well IDs that start at the greatest ID the store held before, plus 1, and no
\* well ID is on rows that two different calls appended.
C8_IdsGoOnFromStore ==
    /\ \A i \in 1..Len(wl_df) : wl_from[i] = wl_ncalls => wl_df[i].Well > wl_lastwell
    /\ \A i, j \in 1..Len(wl_df) : wl_from[i] # wl_from[j] => wl_df[i].Well # wl_df[j].Well

\* ========================================================== claims: InputFile
\* the title line of section id
SectionTitle(id) == WriteSectionHeader(id, modeltype)[2].line.text

\* the places of the lines of f that are section title lines
SectionLines == {i \in 1..Len(f) : f[i].kind = "section"}

\* the place of the title line of section id in f (0 when f has none)
SectionAt(id) ==
    IF \E i \in SectionLines : f[i].text = SectionTitle(id)
    THEN CHOOSE i \in SectionLines : f[i].text = SectionTitle(id)
    ELSE 0

\* f is laid out as write_file is said to lay it out: marker (template mode only),
\* banner, three string lines, the six sections in order, each title after a
\* divider, one line per pilot point in its section, a divider and '* EOF' last
FixedOrder ==
    LET off == IF wtemplate THEN 1 ELSE 0
        pps == {i \in 1..Len(f) : f[i].kind = "pilot_point"}
    IN /\ Len(f) >= off + 8
       /\ \A i \in 1..Len(f) : f[i].kind = "ptf" <=> (wtemplate /\ i = 1)
       /\ f[off + 1].kind = "header_line" /\ f[off + 2].kind = "header_text"
       /\ f[off + 3].kind = "header_line"
       /\ <<f[off + 4].desc, f[off + 5].desc, f[off + 6].desc>>
             = <<"Model Type", "Well Log File", "Hydrogeologic Units File">>
       /\ \A i \in off + 4..off + 6 : f[i].kind = "string"
       /\ Cardinality(SectionLines) = 6
       /\ \A id \in 0..5 : SectionAt(id) > 1 /\ f[SectionAt(id) - 1].kind = "divider"
       /\ SectionAt(0) = off + 8
       /\ \A id \in 0..4 : SectionAt(id) < SectionAt(id + 1)
       /\ Cardinality({i \in pps : SectionAt(4) < i /\ i < SectionAt(5)}) = Len(aquifer_pp)
       /\ Cardinality({i \in pps : SectionAt(5) < i}) = Len(aquitard_pp)
       /\ \A i \in pps : i > SectionAt(4)
       /\ f[Len(f) - 1].kind = "divider"
       /\ f[Len(f)].kind = "eof" /\ f[Len(f)].text = "* EOF"
       /\ \A i \in 1..(Len(f) - 1) : f[i].kind # "eof"

\* a step that is a write_file call
WriteStep == nwrites' = nwrites + 1

\* C9: every write_file call, on every model, leaves a file that holds the marker
\* line first if and only if template mode was asked for, then the banner, the
\* three string lines, the six sections in their order, each with a divider and a
\* title line, one line per pilot point in the two pilot-point sections, and a
\* divider and the '* EOF' line last.
C9_LinesInFixedOrder == [][WriteStep => FixedOrder']_vars

\* C10: a write_file call leaves the values and formats of every pilot point as
\* they were, and a literal-mode write made after other writes of the same model
\* leaves the same text as the literal-mode write made before them.
C10_WriteLeavesModel ==
    [][WriteStep =>
          /\ aquifer_pp' = aquifer_pp
          /\ aquitard_pp' = aquitard_pp
          /\ (lit_set /\ ~wtemplate' => f' = lit_lines)]_vars

\* sub occurs in text
Contains(text, sub) ==
    \E k \in 0..(Len(text) - Len(sub)) : SubSeq(text, k + 1, k + Len(sub)) = sub

\* the delimiter a template-mode write put on the marker line of f
Delimiter == CHOOSE d \in {"$", "#"} : f[1].text = "ptf " \o d

\* the places in f of the lines of the aquifer pilot points
AquiferLines ==
    {i \in 1..Len(f) : /\ f[i].kind = "pilot_point"
                       /\ SectionAt(4) > 0 /\ i > SectionAt(4)
                       /\ (SectionAt(5) = 0 \/ i < SectionAt(5))}

\* the places in f of the lines of the aquitard pilot points
AquitardLines ==
    {i \in 1..Len(f) : f[i].kind = "pilot_point" /\ SectionAt(5) > 0 /\ i > SectionAt(5)}

\* the place in values of the value of the parameter at place j of PPParameters
ValuePlace(j) == 2 + j

\* the template line of pp as it is said to be: the token of a flagged parameter in
\* the field of that parameter's value, every other field formatted as it stands
TemplateLineAsSaid(pp, index, p_delimiter) ==
    Join([k \in 1..Len(pp.values) |->
            IF \E j \in 1..Len(PPParameters) : ValuePlace(j) = k /\ pp.parameters_estimate[j]
            THEN PPToken(PPParameters[k - 2], index, p_delimiter)
            ELSE BraceFormat(pp.def_format[k], pp.values[k]).s], " ")

\* C11: in the line a template-mode write_file call writes for an aquifer pilot
\* point, the placeholder token of every flagged parameter stands in the field that
\* holds that parameter's value, and every other field (x, y and Zone among them)
\* holds the formatted value it held before the call.
C11_TokenInOwnField ==
    [][(WriteStep /\ wtemplate') =>
          \A i \in 1..Len(aquifer_pp) :
             (SectionAt(4)' + 1 + i) \in AquiferLines'
                => f'[SectionAt(4)' + 1 + i].text
                      = TemplateLineAsSaid(aquifer_pp[i], i - 1, Delimiter')]_vars

\* a pilot point as add_pilot_point builds it from the arguments of the runs
FreshPilotPoint ==
    LET a == PPArgs(1)
    IN PilotPoint(a.x, a.y, a.KCMin, a.deltaKC, a.KFMin, a.deltaKF, a.SsC, a.SsF,
                  a.SyC, a.SyF, a.AnisoC, a.AnisoF, a.Zone)

\* the literal formatted value of the parameter at place j of PPParameters
LiteralOf(j) ==
    BraceFormat(FreshPilotPoint.def_format[ValuePlace(j)],
                FreshPilotPoint.values[ValuePlace(j)]).s

\* C12: the line write_file writes for the pilot point at index 0 of the aquifer
\* list holds, for every parameter whose flag is unset, the literal formatted value,
\* and in template mode with delimiter '$', for every parameter whose flag is set,
\* the token '$ <name>_01 $' with the name part left-justified in 12 characters.
C12_FirstPointToken ==
    [][(WriteStep /\ (SectionAt(4)' + 2) \in AquiferLines') =>
          \A j \in 1..Len(PPParameters) :
             IF ~aquifer_pp[1].parameters_estimate[j]
             THEN Contains(f'[SectionAt(4)' + 2].text, LiteralOf(j))
             ELSE (wtemplate' /\ Delimiter' = "$")
                     => Contains(f'[SectionAt(4)' + 2].text,
                                 "$ " \o Ljust(PPParameters[j] \o "_01", 12) \o " $")]_vars

\* the literal line of an aquitard pilot point as it is said to be: x, y, KCMin,
\* deltaKC, KFMin, deltaKF, AnisoC, AnisoF and Zone, and no storage field
AquitardLineAsSaid(pp) ==
    Join([k \in 1..9 |->
            IF k <= 6 THEN BraceFormat(float_format, pp.values[k]).s
            ELSE IF k <= 8 THEN BraceFormat(float_format, pp.values[k + 4]).s
            ELSE BraceFormat(int_format, pp.values[13]).s], " ")

\* C13: on a model that holds an aquitard pilot point, write_file completes in
\* literal and in template mode, and the aquitard section holds one line per
\* aquitard pilot point, in literal mode the nine fields x, y, KCMin, deltaKC,
\* KFMin, deltaKF, AnisoC, AnisoF, Zone.
C13_AquitardSectionWritten ==
    [][(WriteStep /\ aquitard_pp # <<>>) =>
          /\ wres' = "ok"
          /\ Cardinality(AquitardLines') = Len(aquitard_pp)
          /\ ~wtemplate' =>
                \A j \in 1..Len(aquitard_pp) :
                   f'[SectionAt(5)' + 1 + j].text = AquitardLineAsSaid(aquitard_pp[j])]_vars

\* ======================================================= claims: construction
\* the text of a file name after its last dot; a name without a dot has none
HasTextAfterLastDot(name, text) ==
    /\ Dots(name) # {}
    /\ \E k \in Dots(name) :
          /\ \A e \in Dots(name) : e <= k
          /\ SubSeq(name, k + 1, Len(name)) = text

\* the construction came out as it is said to for a name that selects MODFLOW
\* (isNam) or IWFM (not isNam)
ConstructedAsSaid(isNam) ==
    IF isNam
    THEN ctor_modeltype = "MODFLOW" /\ ctor_res = "ok"
    ELSE /\ ctor_modeltype = "IWFM"
         /\ (ctor_res = "ValueError" <=> ctor_preproc_file = None)
         /\ (ctor_res = "ok" <=> ctor_preproc_file # None)

\* C14: construction with a simulation file name selects MODFLOW exactly when the
\* text after the last '.' of the name is 'nam', and then succeeds with or without a
\* pre-processor path; for every other name it selects IWFM and fails if and only
\* if the pre-processor path is None.
C14_NamAfterLastDot ==
    (ctor_res # "none" /\ ctor_sim_file # None)
        => ConstructedAsSaid(HasTextAfterLastDot(ctor_sim_file, "nam"))

\* C14 as amended: MODFLOW exactly when the text after the last '.' of the name, or
\* the whole name when it holds no '.', is 'nam'; the rest as stated.
C14_NamLastPart ==
    (ctor_res # "none" /\ ctor_sim_file # None)
        => ConstructedAsSaid(\/ HasTextAfterLastDot(ctor_sim_file, "nam")
                             \/ (Dots(ctor_sim_file) = {} /\ ctor_sim_file = "nam"))

\* a name with 'nam' before its last dot was taken for IWFM and, without a
\* pre-processor path, refused
C14_Witness ==
    /\ ctor_sim_file = "model.nam.in" /\ ctor_preproc_file = None
    /\ ctor_res = "ValueError" /\ ctor_modeltype = "IWFM"

\* ====================================================== claims: value lines
\* text without the spaces at its end
RECURSIVE RStrip(_)
RStrip(text) ==
    IF text # "" /\ SubSeq(text, Len(text), Len(text)) = " "
    THEN RStrip(SubSeq(text, 1, Len(text) - 1))
    ELSE text

\* the offset in a value line at which its comment '/ <description>' starts
MarkerOffset(line) == Len(line.text) - Len(line.desc) - 2

\* the strings write_file hands to _write_string
SaidStrings ==
    {modeltype, files.well_log_file, files.unit_file, files.sim_file, files.preproc_file,
     files.template_file, files.pp_zone, Settings.full_output} \ {None}

\* the numbers write_file hands to _write_value, each as its format renders it
SaidNumbers ==
    {PctFormat(float_precision, Settings[a]).s :
        a \in {"xoff", "yoff", "rotation", "sill", "anistropy", "nugget",
               "KCk", "KFk", "KHp", "KVp", "Syp"}}
    \cup {PctFormat(sci_precision, Settings[a]).s : a \in {"range_max", "range_min"}}
    \cup {PctFormat("%d", Settings.nkrige_wells).s, PctFormat("%s", Settings.variogram_type).s}

\* the prefixes a value line may have: one space and the value, or, in template
\* mode, the token of a flagged parameter
SaidPrefixes(template_file, p_delimiter) ==
    {" " \o v : v \in SaidStrings \cup SaidNumbers}
    \cup (IF template_file
          THEN {p_delimiter \o " " \o Ljust(Parameters[i], 12) \o " " \o p_delimiter :
                   i \in {j \in 1..Len(Parameters) : parameters_estimate[j]}}
          ELSE {})

\* a value line is laid out as said: prefix, spaces up to offset 40 when the prefix
\* is no longer than that, then '/ ' and the description
LaidOut(line, prefixes) ==
    LET n == MarkerOffset(line)
        prefix == RStrip(SubSeq(line.text, 1, n))
    IN /\ n >= 0
       /\ SubSeq(line.text, n + 1, Len(line.text)) = "/ " \o line.desc
       /\ prefix \in prefixes
       /\ IF Len(prefix) <= 40 THEN n = 40 ELSE n = Len(prefix)

\* the places in f of the lines _write_string and _write_value wrote
ValueLines == {i \in 1..Len(f) : f[i].kind \in {"string", "value"}}

\* C15: every line that _write_value or _write_string writes is its prefix (one
\* space and the formatted value, or in template mode the token of a flagged
\* parameter), padded with spaces so that '/ ' starts at offset 40 when the prefix has
\* at most 40 characters; a longer prefix is written whole, with '/ ' right after
\* it, and the write goes on to the next line.
C15_CommentAtColumn ==
    [][WriteStep =>
          \A i \in ValueLines' :
             /\ LaidOut(f'[i], SaidPrefixes(wtemplate', IF wtemplate' THEN Delimiter' ELSE "$"))
             /\ MarkerOffset(f'[i]) > 40 => i < Len(f')]_vars

\* a template write left a line whose prefix is longer than the column, a line
\* whose prefix fills it exactly, and a line that holds a token
C15_Witness ==
    /\ nwrites > 0 /\ wtemplate /\ wres = "ok"
    /\ \E i, j, k \in ValueLines :
          /\ MarkerOffset(f[i]) > 40
          /\ MarkerOffset(f[j]) = 40 /\ SubSeq(f[j].text, 40, 40) # " "
          /\ SubSeq(f[k].text, 1, 1) # " "

\* =========================================================== claims: catalog
\* a step that is a set_est_parameters call on the InputFile (one that changes
\* nothing repeats an earlier call)
SelectStep == est_call' # est_call \/ parameters_estimate' # parameters_estimate

\* the flags of every pilot point of a list are those of before and those named
FlagsSet(before, after, pnames) ==
    /\ Len(after) = Len(before)
    /\ \A i \in 1..Len(before) : \A j \in 1..Len(PPParameters) :
          after[i].parameters_estimate[j]
             <=> (before[i].parameters_estimate[j] \/ PPParameters[j] \in Range(pnames))

\* a step that is a set_pp_est_parameters call (one that changes nothing repeats an
\* earlier call)
PPSelectStep ==
    \/ pp_est_res' # pp_est_res
    \/ /\ Len(aquifer_pp') = Len(aquifer_pp) /\ Len(aquitard_pp') = Len(aquitard_pp)
       /\ <<aquifer_pp, aquitard_pp>>' # <<aquifer_pp, aquitard_pp>>

\* the calls on the pilot points of a list went as said for the names pnames: they
\* raised when a name is none of the pilot point parameters, and otherwise set the
\* flags named and no other
PPSelected(before, after, pnames) ==
    IF \E k \in 1..Len(pnames) : pnames[k] \notin Range(PPParameters)
    THEN before # <<>> /\ pp_est_res' = "ValueError"
    ELSE pp_est_res' = "ok" /\ FlagsSet(before, after, pnames)

\* C16: a set_est_parameters call on the InputFile raises exactly when one of its
\* names is not a catalog key, and otherwise sets the flag of every parameter it
\* names and leaves every other flag as it was; a call on the pilot points does the
\* same with their flags; and no step, a selection or an override of a display
\* name, changes the catalog keys.
C16_SelectKeepsCatalog ==
    /\ [][SelectStep =>
             /\ est_call'.res = "ValueError"
                   <=> \E k \in 1..Len(est_call'.pnames) :
                          est_call'.pnames[k] \notin Range(Parameters)
             /\ est_call'.res = "ok" =>
                   \A i \in 1..Len(Parameters) :
                      parameters_estimate'[i]
                         <=> (parameters_estimate[i]
                                 \/ Parameters[i] \in Range(est_call'.pnames))]_vars
    /\ [][PPSelectStep =>
             \E pnames \in PPNameLists :
                \/ PPSelected(aquifer_pp, aquifer_pp', pnames) /\ aquitard_pp' = aquitard_pp
                \/ PPSelected(aquitard_pp, aquitard_pp', pnames) /\ aquifer_pp' = aquifer_pp]_vars
    /\ [][parameters' = parameters]_vars

\* ====================================================== claims: Dataset file
\* a step that is a Dataset.write_file call (one that changes nothing repeats an
\* earlier call)
FileStep == outVars' # outVars

\* the header line as it is said to be: the schema's columns in order, the zone
\* columns labelled '1'..'nlay'
HeaderAsSaid ==
    LET columns == Columns(has_var, nlay)
    IN [k \in 1..Len(columns) |->
          IF k > Len(columns) - nlay THEN ToString(k - (Len(columns) - nlay))
          ELSE columns[k]]

\* the line of a row as it is said to be: its values in the schema's column order,
\* the zone codes in the zone columns
RowAsSaid(row) ==
    LET columns == Columns(has_var, nlay)
    IN [k \in 1..Len(columns) |->
          IF columns[k] \notin DOMAIN row THEN NaRep
          ELSE IF k = 1 THEN row[columns[k]]
          ELSE IF row[columns[k]] = NaN THEN NaRep ELSE row[columns[k]]]

\* C17: on a Dataset with zone layers (nlay >= 1) that add_wells_by_df has put rows
\* into, write_file succeeds and writes every row in insertion order, its values in
\* the schema's column order with its zone codes, under a header line (when one is
\* written) that labels the zone columns '1'..'nlay'.
C17_ZoneColumnsNumbered ==
    [][(FileStep /\ nlay >= 1 /\ ncalls > 0 /\ pdf # <<>> /\ res = "ok") =>
          /\ out_res' = "ok"
          /\ out_header' \in {<<>>, HeaderAsSaid}
          /\ out_rows' = [i \in 1..Len(df) |-> RowAsSaid(df[i])]]_vars

====
